---------------------------- MODULE Spec2Model ----------------------------
(***************************************************************************)
(* A model of the Minesweeper rules engine: the Cell state machine         *)
(* (src/unnamed/part_000), the enumerations (src/src/states.js) and the    *)
(* field engine (src/src/minesweeper.js).                                  *)
(*                                                                         *)
(* A Minesweeper object is the record                                      *)
(*   [fieldSize, bombNumber, state, gameField, notifications, winCheck]    *)
(* where gameField maps a position <<x, y>> to a Cell record               *)
(* [isBomb, state]; a position outside DOMAIN gameField is a slot of the   *)
(* grid that holds no Cell yet (undefined).  The last two fields are what  *)
(* a command puts out rather than what the object stores: notifications   *)
(* is the sequence of calls of _notifyCellStateChanged and                 *)
(* _notifyGameStateChanged the command made, in call order (what an        *)
(* observer with both hooks set receives), and winCheck is <<>> or         *)
(* <<[state, gameField]>>, the object as the command entered               *)
(* _setWinIfNeeded.  Every method is an operator from the object (and the  *)
(* arguments) to the object afterwards.                                    *)
(***************************************************************************)
EXTENDS Integers, Sequences, FiniteSets

\* ---- bounds of the model -------------------------------------------------
\* Grids are 1 x 1 up to MaxFieldSize x MaxFieldSize.
MaxFieldSize == 3
\* bombNumber is 0..MaxBombNumber in games (Spec) and
\* 0..MaxPlacementBombNumber where only the placement runs (SpecPlacement).
MaxBombNumber == 2
MaxPlacementBombNumber == 4
\* A game on the largest grid runs at most MaxCommands openCell and
\* toggleCellBombMark commands between two placements.
MaxCommands == 2

\* ---- src/src/states.js ---------------------------------------------------
INITIAL == 0
OPENED == 1
MARKED_AS_BOMB == 2
DEFUSED == 3
DETONATED == 4

INITIATED == 0
READY == 1
RUNNING == 2
WIN == 3
LOSS == 4

CellState == {INITIAL, OPENED, MARKED_AS_BOMB, DEFUSED, DETONATED}

GameState == {INITIATED, READY, RUNNING, WIN, LOSS}

\* numberBombs is <<n>> for the number n and <<>> for null.
null == << >>

\* ---- src/unnamed/part_000 : Cell -----------------------------------------
\* Every mutating method returns [cell |-> the cell afterwards,
\*                                changed |-> the method's return value].

Cell == [isBomb |-> FALSE, state |-> INITIAL]

\* An opening that takes the bomb out of the cell.
_openOrDoOtherIfBomb_removesBomb(cell, otherState) ==
    IF cell.state = INITIAL \/ cell.state = MARKED_AS_BOMB
    THEN [cell |-> [isBomb |-> FALSE,
                    state |-> IF cell.isBomb THEN otherState ELSE OPENED],
          changed |-> TRUE]
    ELSE [cell |-> cell, changed |-> FALSE]

_openOrDoOtherIfBomb(cell, otherState) ==
    IF cell.state = INITIAL \/ cell.state = MARKED_AS_BOMB
    THEN [cell |-> [cell EXCEPT !.state = IF cell.isBomb THEN otherState ELSE OPENED],
          changed |-> TRUE]
    ELSE [cell |-> cell, changed |-> FALSE]

openOrDetonate(cell) == _openOrDoOtherIfBomb(cell, DETONATED)

\* A defusal that detonates.
openOrDefuse_detonates(cell) == _openOrDoOtherIfBomb(cell, DETONATED)

openOrDefuse(cell) == _openOrDoOtherIfBomb(cell, DEFUSED)

\* A mark that can be put on an opened cell too.
toggleBombMark_marksOpened(cell) ==
    LET newState == CASE cell.state = MARKED_AS_BOMB -> INITIAL
                      [] cell.state \in {INITIAL, OPENED} -> MARKED_AS_BOMB
                      [] OTHER -> cell.state
    IN  [cell |-> [cell EXCEPT !.state = newState],
         changed |-> cell.state # newState]

\* A mark that cannot be taken back.
toggleBombMark_markOnly(cell) ==
    IF cell.state = INITIAL
    THEN [cell |-> [cell EXCEPT !.state = MARKED_AS_BOMB], changed |-> TRUE]
    ELSE [cell |-> cell, changed |-> FALSE]

toggleBombMark(cell) ==
    LET initialState == cell.state
        newState == CASE cell.state = MARKED_AS_BOMB -> INITIAL
                      [] cell.state = INITIAL -> MARKED_AS_BOMB
                      [] OTHER -> cell.state
    IN  [cell |-> [cell EXCEPT !.state = newState],
         changed |-> initialState # newState]

\* A clear that leaves the bomb in the cell.
clear_keepsBomb(cell) ==
    IF cell.state # INITIAL
    THEN [cell |-> [cell EXCEPT !.state = INITIAL], changed |-> TRUE]
    ELSE [cell |-> cell, changed |-> FALSE]

clear(cell) ==
    IF cell.state # INITIAL
    THEN [cell |-> [isBomb |-> FALSE, state |-> INITIAL], changed |-> TRUE]
    ELSE [cell |-> [cell EXCEPT !.isBomb = FALSE], changed |-> FALSE]

\* ---- src/src/minesweeper.js : iteration ----------------------------------

Max(a, b) == IF a > b THEN a ELSE b

Min(a, b) == IF a < b THEN a ELSE b

\* The positions _forEachCell visits, in visiting order (i outer, j inner).
_forEachCell(size) ==
    [k \in 1..(size * size) |->
        <<(k - 1) \div size, (k - 1) % size>>]

\* The neighbours in the same row or column only.
_forEachAdjacentCell_orthogonal(size, pos) ==
    SelectSeq(_forEachCell(size),
              LAMBDA p : (IF p[1] > pos[1] THEN p[1] - pos[1] ELSE pos[1] - p[1])
                         + (IF p[2] > pos[2] THEN p[2] - pos[2] ELSE pos[2] - p[2]) = 1)

\* The positions _forEachAdjacentCell visits around pos, in visiting order.
_forEachAdjacentCell(size, pos) ==
    LET x == pos[1]
        y == pos[2]
        is == Max(x - 1, 0)..Min(x + 1, size - 1)
        js == Max(y - 1, 0)..Min(y + 1, size - 1)
        lo == Max(y - 1, 0)
        w  == Cardinality(js)
        all == [k \in 1..(Cardinality(is) * w) |->
                   <<Max(x - 1, 0) + ((k - 1) \div w), lo + ((k - 1) % w)>>]
    IN  SelectSeq(all, LAMBDA p : ~(x = p[1] /\ y = p[2]))

Range(s) == {s[k] : k \in DOMAIN s}

_allAdjacentCellsAreBombs(size, field, pos) ==
    \A p \in Range(_forEachAdjacentCell(size, pos)) : field[p].isBomb

\* A count that sees no bomb around any cell.
_getNumberAdjacentBombs_seesNone(size, field, pos) ==
    Cardinality({p \in Range(_forEachAdjacentCell(size, pos)) : FALSE})

_getNumberAdjacentBombs(size, field, pos) ==
    Cardinality({p \in Range(_forEachAdjacentCell(size, pos)) : field[p].isBomb})

\* ---- src/src/minesweeper.js : notifications and game state ---------------

\* _getCellData that counts the bombs around a cell in every state.
_getCellData_countsAlways(this, pos) ==
    [state |-> this.gameField[pos].state,
     numberBombs |-> <<_getNumberAdjacentBombs(this.fieldSize, this.gameField, pos)>>]

_getCellData(this, pos) ==
    LET state == this.gameField[pos].state
        numberBombs == IF state = OPENED
                       THEN <<_getNumberAdjacentBombs(this.fieldSize, this.gameField, pos)>>
                       ELSE null
    IN  [state |-> state, numberBombs |-> numberBombs]

_notifyCellStateChanged(this, pos) ==
    [this EXCEPT !.notifications =
        Append(@, [hook |-> "onCellStateChanged", x |-> pos[1], y |-> pos[2],
                   data |-> _getCellData(this, pos)])]

_notifyGameStateChanged(this) ==
    [this EXCEPT !.notifications =
        Append(@, [hook |-> "onGameStateChanged", state |-> this.state])]

_setGameState(this, newState) ==
    _notifyGameStateChanged([this EXCEPT !.state = newState])

\* A start from the end of a game as well.
_startGameIfNeeded_afterGame(this) ==
    IF this.state \in {READY, WIN, LOSS} THEN _setGameState(this, RUNNING) ELSE this

\* Returns the object afterwards; the method's return value is
\* (result.state = RUNNING).
_startGameIfNeeded(this) ==
    IF this.state = READY THEN _setGameState(this, RUNNING) ELSE this

\* ---- src/src/minesweeper.js : loss and win --------------------------------

\* The callback of _setLoss applied to the cells seq[i], seq[i+1], ...
RECURSIVE _setLossEach(_, _, _)
_setLossEach(this, seq, i) ==
    IF i > Len(seq) THEN this
    ELSE LET r == openOrDetonate(this.gameField[seq[i]])
             t == [this EXCEPT !.gameField[seq[i]] = r.cell]
         IN  IF r.changed
             THEN _setLossEach(_notifyCellStateChanged(t, seq[i]), seq, i + 1)
             ELSE _setLossEach(t, seq, i + 1)

\* _setLoss that sets the game state before it resolves the cells.
_setLoss_stateFirst(this) ==
    _setLossEach(_setGameState(this, LOSS), _forEachCell(this.fieldSize), 1)

\* _setLoss that forgets to resolve the cells.
_setLoss_noResolve(this) == _setGameState(this, LOSS)

_setLoss(this) ==
    _setGameState(_setLossEach(this, _forEachCell(this.fieldSize), 1), LOSS)

\* The second callback of _setWinIfNeeded applied to seq[i], seq[i+1], ...
RECURSIVE _setWinEach(_, _, _)
_setWinEach(this, seq, i) ==
    IF i > Len(seq) THEN this
    ELSE LET r == openOrDefuse(this.gameField[seq[i]])
             t == [this EXCEPT !.gameField[seq[i]] = r.cell]
         IN  IF r.changed
             THEN _setWinEach(_notifyCellStateChanged(t, seq[i]), seq, i + 1)
             ELSE _setWinEach(t, seq, i + 1)

\* _setWinIfNeeded that checks for the win in every game state.
_setWinIfNeeded_inAnyState(this) ==
    LET entered == [this EXCEPT !.winCheck =
                       <<[state |-> this.state, gameField |-> this.gameField]>>]
        win == \A p \in Range(_forEachCell(this.fieldSize)) :
                  LET cell == this.gameField[p]
                  IN  ~(cell.state = INITIAL
                        \/ (cell.state = MARKED_AS_BOMB /\ ~cell.isBomb))
    IN  IF win
        THEN _setGameState(_setWinEach(entered, _forEachCell(this.fieldSize), 1), WIN)
        ELSE entered

\* _setWinIfNeeded by the usual rule of the game: an untouched bomb does not
\* stand in the way of the win.
_setWinIfNeeded_untouchedBombs(this) ==
    LET entered == [this EXCEPT !.winCheck =
                       <<[state |-> this.state, gameField |-> this.gameField]>>]
        win == \A p \in Range(_forEachCell(this.fieldSize)) :
                  LET cell == this.gameField[p]
                  IN  ~((cell.state = INITIAL \/ cell.state = MARKED_AS_BOMB)
                        /\ ~cell.isBomb)
    IN  IF this.state # RUNNING THEN entered
        ELSE IF win
             THEN _setGameState(_setWinEach(entered, _forEachCell(this.fieldSize), 1), WIN)
             ELSE entered

\* _setWinIfNeeded that overlooks the cells wrongly marked as a bomb.
_setWinIfNeeded_anyMark(this) ==
    LET entered == [this EXCEPT !.winCheck =
                       <<[state |-> this.state, gameField |-> this.gameField]>>]
        win == \A p \in Range(_forEachCell(this.fieldSize)) :
                  this.gameField[p].state # INITIAL
    IN  IF this.state # RUNNING THEN entered
        ELSE IF win
             THEN _setGameState(_setWinEach(entered, _forEachCell(this.fieldSize), 1), WIN)
             ELSE entered

_setWinIfNeeded(this) ==
    LET entered == [this EXCEPT !.winCheck =
                       <<[state |-> this.state, gameField |-> this.gameField]>>]
        win == \A p \in Range(_forEachCell(this.fieldSize)) :
                  LET cell == this.gameField[p]
                  IN  ~(cell.state = INITIAL
                        \/ (cell.state = MARKED_AS_BOMB /\ ~cell.isBomb))
    IN  IF this.state # RUNNING THEN entered
        ELSE IF win
             THEN _setGameState(_setWinEach(entered, _forEachCell(this.fieldSize), 1), WIN)
             ELSE entered

\* ---- src/src/minesweeper.js : opening and marking -------------------------

\* _openCell applied to the positions of `pending` one after the other: the
\* calls of _openCell still to be made, in the order the recursion makes them.
\* A call that opens a cell with no bomb around puts its recursive calls (the
\* adjacent cells, in _forEachAdjacentCell's order) before the rest.
RECURSIVE _openCellPending(_, _)
_openCellPending(this, pending) ==
    IF pending = << >> THEN this
    ELSE LET pos == Head(pending)
             r == openOrDetonate(this.gameField[pos])
             t == _notifyCellStateChanged([this EXCEPT !.gameField[pos] = r.cell], pos)
         IN  IF ~r.changed THEN _openCellPending(this, Tail(pending))
             ELSE IF r.cell.state = DETONATED
                  THEN _openCellPending(_setLoss(t), Tail(pending))
             ELSE IF _getNumberAdjacentBombs(t.fieldSize, t.gameField, pos) = 0
                  THEN _openCellPending(t, _forEachAdjacentCell(t.fieldSize, pos)
                                              \o Tail(pending))
                  ELSE _openCellPending(t, Tail(pending))

_openCell(this, pos) == _openCellPending(this, <<pos>>)

openCell(this, x, y) ==
    LET started == _startGameIfNeeded(this)
    IN  IF started.state # RUNNING THEN started
        ELSE _setWinIfNeeded(_openCell(started, <<x, y>>))

toggleCellBombMark(this, x, y) ==
    LET started == _startGameIfNeeded(this)
        r == toggleBombMark(started.gameField[<<x, y>>])
        t == [started EXCEPT !.gameField[<<x, y>>] = r.cell]
    IN  IF started.state # RUNNING THEN started
        ELSE IF r.changed THEN _setWinIfNeeded(_notifyCellStateChanged(t, <<x, y>>))
        ELSE t

\* ---- src/src/minesweeper.js : bomb placement ------------------------------

\* The first part of _setBombsOnGameField: the callback that clears (or
\* creates) the cells seq[i], seq[i+1], ...
RECURSIVE _clearEach(_, _, _)
_clearEach(this, seq, i) ==
    IF i > Len(seq) THEN this
    ELSE IF seq[i] \in DOMAIN this.gameField
         THEN LET r == clear(this.gameField[seq[i]])
                  t == [this EXCEPT !.gameField[seq[i]] = r.cell]
              IN  IF r.changed
                  THEN _clearEach(_notifyCellStateChanged(t, seq[i]), seq, i + 1)
                  ELSE _clearEach(t, seq, i + 1)
         ELSE _clearEach([this EXCEPT !.gameField =
                             [p \in DOMAIN this.gameField \cup {seq[i]} |->
                                 IF p = seq[i] THEN Cell ELSE this.gameField[p]]],
                         seq, i + 1)

\* bombCanBeSetHere without the look at the adjacent bombs.
bombCanBeSetHere_selectedOnly(size, field, pos) ==
    ~field[pos].isBomb /\ ~_allAdjacentCellsAreBombs(size, field, pos)

\* bombCanBeSetHere for every cell that holds no bomb.
bombCanBeSetHere_anyFreeCell(size, field, pos) == ~field[pos].isBomb

\* The value of bombCanBeSetHere at the end of one pass of the while loop that
\* selected the cell at pos.
bombCanBeSetHere(size, field, pos) ==
    LET thereIsAtLeastOneAdjacentCellWithoutBomb ==
            ~_allAdjacentCellsAreBombs(size, field, pos)
        fake == [field EXCEPT ![pos].isBomb = TRUE]
    IN  /\ ~field[pos].isBomb
        /\ thereIsAtLeastOneAdjacentCellWithoutBomb
        /\ ~\E a \in Range(_forEachAdjacentCell(size, pos)) :
               fake[a].isBomb /\ _allAdjacentCellsAreBombs(size, fake, a)

\* The loop's variables: [gameField, numberSetBombs,
\*                        admissibleNumberFailedAttemptsToPutBomb].
placementGoesOn(loop, bombs) ==
    loop.numberSetBombs < bombs /\ loop.admissibleNumberFailedAttemptsToPutBomb # 0

\* A pass that picks again, at no cost, when the cell holds a bomb already.
placementAttempt_picksAgain(size, loop, x, y) ==
    IF bombCanBeSetHere(size, loop.gameField, <<x, y>>)
    THEN [loop EXCEPT !.gameField[<<x, y>>].isBomb = TRUE,
                      !.numberSetBombs = @ + 1]
    ELSE IF loop.gameField[<<x, y>>].isBomb THEN loop
    ELSE [loop EXCEPT !.admissibleNumberFailedAttemptsToPutBomb = @ - 1]

\* A pass that counts a bomb for a cell that holds one already.
placementAttempt_countsAgain(size, loop, x, y) ==
    IF bombCanBeSetHere(size, loop.gameField, <<x, y>>) \/ loop.gameField[<<x, y>>].isBomb
    THEN [loop EXCEPT !.gameField[<<x, y>>].isBomb = TRUE,
                      !.numberSetBombs = @ + 1]
    ELSE [loop EXCEPT !.admissibleNumberFailedAttemptsToPutBomb = @ - 1]

\* One pass of the while loop with the random position <<x, y>>.
placementAttempt(size, loop, x, y) ==
    IF bombCanBeSetHere(size, loop.gameField, <<x, y>>)
    THEN [loop EXCEPT !.gameField[<<x, y>>].isBomb = TRUE,
                      !.numberSetBombs = @ + 1]
    ELSE [loop EXCEPT !.admissibleNumberFailedAttemptsToPutBomb = @ - 1]

\* Every value of the loop's variables that some sequence of random positions
\* reaches from a value in `seen`; `frontier` holds the values of `seen` whose
\* passes have not been taken yet.
RECURSIVE placementReach(_, _, _, _)
placementReach(size, bombs, frontier, seen) ==
    LET next == {placementAttempt(size, loop, x, y) :
                    loop \in {l \in frontier : placementGoesOn(l, bombs)},
                    x \in 0..(size - 1), y \in 0..(size - 1)} \ seen
    IN  IF next = {} THEN seen
        ELSE placementReach(size, bombs, next, seen \cup next)

\* The values of the loop's variables the while loop can end with, started on
\* field, over every sequence of random positions.
placementResults(size, bombs, field) ==
    LET start == [gameField |-> field, numberSetBombs |-> 0,
                  admissibleNumberFailedAttemptsToPutBomb |-> size * size]
    IN  {loop \in placementReach(size, bombs, {start}, {start}) :
            ~placementGoesOn(loop, bombs)}

emptyField(size) == [p \in Range(_forEachCell(size)) |-> Cell]

\* The fields the while loop can end with, started on the empty field,
\* tabulated once: entry (size - 1) * (MaxBombNumber + 1) + bombs.
placementTable ==
    [k \in 0..(MaxFieldSize * (MaxBombNumber + 1) - 1) |->
        {loop.gameField :
            loop \in placementResults(1 + (k \div (MaxBombNumber + 1)),
                                      k % (MaxBombNumber + 1),
                                      emptyField(1 + (k \div (MaxBombNumber + 1))))}]

\* The fields the while loop can end with, started on field.
placementFields(size, bombs, field) ==
    IF /\ field = emptyField(size)
       /\ size \in 1..MaxFieldSize
       /\ bombs \in 0..MaxBombNumber
    THEN placementTable[(size - 1) * (MaxBombNumber + 1) + bombs]
    ELSE {loop.gameField : loop \in placementResults(size, bombs, field)}

\* The objects _setBombsOnGameField can leave, one for each field the random
\* positions can produce.
_setBombsOnGameField(this) ==
    LET cleared == _clearEach(this, _forEachCell(this.fieldSize), 1)
    IN  {_setGameState([cleared EXCEPT !.gameField = field], READY) :
            field \in placementFields(this.fieldSize, this.bombNumber, cleared.gameField)}

restartGame(this) == _setBombsOnGameField(this)

\* ---- the state machine -----------------------------------------------------

VARIABLES
    fieldSize,       \* this._fieldSize
    bombNumber,      \* this._bombNumber
    state,           \* this._state
    gameField,       \* this._gameField
    commands,        \* openCell / toggleCellBombMark commands run since the
                     \* last placement
    pc,              \* "idle", or "placing": inside the while loop of
                     \* _setBombsOnGameField (SpecPlacement only)
    numberSetBombs,  \* the while loop's local numberSetBombs, and
    admissibleNumberFailedAttemptsToPutBomb  \* its local failure budget

vars == <<fieldSize, bombNumber, state, gameField, commands, pc, numberSetBombs,
          admissibleNumberFailedAttemptsToPutBomb>>

loopVars == <<pc, numberSetBombs, admissibleNumberFailedAttemptsToPutBomb>>

\* The object as a command finds it.
This ==
    [fieldSize |-> fieldSize, bombNumber |-> bombNumber, state |-> state,
     gameField |-> gameField, notifications |-> << >>, winCheck |-> << >>]

Coordinates == 0..(fieldSize - 1)

\* Smaller grids may run longer games.
CommandLimit == MaxCommands + 2 * (MaxFieldSize - fieldSize)

\* The constructor up to line 19, with the given arguments: the grid holds no
\* Cell yet.
Constructing(sizes, bombNumbers) ==
    /\ fieldSize \in sizes
    /\ bombNumber \in bombNumbers
    /\ state = INITIATED
    /\ gameField = [p \in {} |-> Cell]
    /\ commands = 0
    /\ pc = "idle"
    /\ numberSetBombs = 0
    /\ admissibleNumberFailedAttemptsToPutBomb = 0

Init == Constructing(1..MaxFieldSize, 0..MaxBombNumber)

Becomes(this) ==
    /\ state' = this.state
    /\ gameField' = this.gameField
    /\ UNCHANGED <<fieldSize, bombNumber>>

\* The constructor's line 21.
Minesweeper ==
    /\ state = INITIATED
    /\ \E this \in _setBombsOnGameField(This) : Becomes(this)
    /\ UNCHANGED <<commands, loopVars>>

OpenCell(x, y) ==
    /\ state # INITIATED
    /\ commands < CommandLimit
    /\ Becomes(openCell(This, x, y))
    /\ commands' = commands + 1
    /\ UNCHANGED loopVars

ToggleCellBombMark(x, y) ==
    /\ state # INITIATED
    /\ commands < CommandLimit
    /\ Becomes(toggleCellBombMark(This, x, y))
    /\ commands' = commands + 1
    /\ UNCHANGED loopVars

RestartGame ==
    /\ state # INITIATED
    /\ \E this \in restartGame(This) : Becomes(this)
    /\ commands' = 0
    /\ UNCHANGED loopVars

Next ==
    \/ Minesweeper
    \/ \E x \in Coordinates, y \in Coordinates : OpenCell(x, y)
    \/ \E x \in Coordinates, y \in Coordinates : ToggleCellBombMark(x, y)
    \/ RestartGame

Spec == Init /\ [][Next]_vars

\* ---- the placement alone, one pass of the while loop at a time -------------

InitPlacement == Constructing(1..MaxFieldSize, 0..MaxPlacementBombNumber)

Loop ==
    [gameField |-> gameField, numberSetBombs |-> numberSetBombs,
     admissibleNumberFailedAttemptsToPutBomb |-> admissibleNumberFailedAttemptsToPutBomb]

\* The loop's variables become `loop`; when the loop's condition fails with
\* them, _setBombsOnGameField goes on to line 144 and returns.
LoopBecomes(loop) ==
    /\ gameField' = loop.gameField
    /\ numberSetBombs' = loop.numberSetBombs
    /\ admissibleNumberFailedAttemptsToPutBomb' =
           loop.admissibleNumberFailedAttemptsToPutBomb
    /\ IF placementGoesOn(loop, bombNumber)
       THEN pc' = "placing" /\ UNCHANGED state
       ELSE pc' = "idle" /\ state' = _setGameState(This, READY).state
    /\ UNCHANGED <<fieldSize, bombNumber, commands>>

\* _setBombsOnGameField from its first line to the while loop (lines 77-101).
PlacementBegins ==
    LoopBecomes([gameField |-> _clearEach(This, _forEachCell(fieldSize), 1).gameField,
                 numberSetBombs |-> 0,
                 admissibleNumberFailedAttemptsToPutBomb |-> fieldSize * fieldSize])

\* The constructor's line 21, up to the while loop.
MinesweeperPlaces == state = INITIATED /\ pc = "idle" /\ PlacementBegins

\* restartGame, up to the while loop.
RestartGamePlaces == state # INITIATED /\ pc = "idle" /\ PlacementBegins

\* One pass of the while loop (lines 103-142) with the random position <<x, y>>.
PlacementPass(x, y) ==
    /\ pc = "placing"
    /\ LoopBecomes(placementAttempt(fieldSize, Loop, x, y))

NextPlacement ==
    \/ MinesweeperPlaces
    \/ RestartGamePlaces
    \/ \E x \in Coordinates, y \in Coordinates : PlacementPass(x, y)

SpecPlacement == InitPlacement /\ [][NextPlacement]_vars

\* ---- what the claims speak of ----------------------------------------------

Positions == Coordinates \X Coordinates

\* The 8-neighbourhood of p, clipped at the grid's edges.
Neighbours(p) ==
    {q \in Positions : q # p /\ q[1] - p[1] \in -1..1 /\ q[2] - p[2] \in -1..1}

BombCells(field) == {p \in DOMAIN field : field[p].isBomb}

Unresolved(cell) == cell.state \in {INITIAL, MARKED_AS_BOMB}

Resolved(cell) == cell.state \in {OPENED, DEFUSED, DETONATED}

\* A game can begin or is under way: a command takes effect.
Playable == state \in {READY, RUNNING}

\* A placement has just returned (SpecPlacement).
PlacementDone == pc = "idle" /\ state = READY

CellNotifications(this) ==
    SelectSeq(this.notifications, LAMBDA n : n.hook = "onCellStateChanged")

GameNotifications(this) ==
    SelectSeq(this.notifications, LAMBDA n : n.hook = "onGameStateChanged")

\* ---- C1 ----------------------------------------------------------------------
\* C1: whenever openCell(x, y) is called with the game READY or RUNNING on a
\* cell that holds a bomb and is INITIAL or MARKED_AS_BOMB, the command returns
\* with the game state LOSS and every cell OPENED, DEFUSED or DETONATED.
C1_DetonationLosesAndResolvesAll ==
    Playable =>
        \A p \in Positions :
            (gameField[p].isBomb /\ Unresolved(gameField[p])) =>
                LET after == openCell(This, p[1], p[2])
                IN  /\ after.state = LOSS
                    /\ \A q \in Positions : Resolved(after.gameField[q])

\* A running game with a marked bomb, another cell marked and a third one
\* untouched, in which the marked bomb can be opened: it then is LOSS.
C1_Witness ==
    /\ state = RUNNING
    /\ commands < CommandLimit
    /\ \E p, q, r \in Positions :
          /\ gameField[p] = [isBomb |-> TRUE, state |-> MARKED_AS_BOMB]
          /\ q # p /\ gameField[q].state = MARKED_AS_BOMB
          /\ gameField[r].state = INITIAL
          /\ openCell(This, p[1], p[2]).state = LOSS

\* ---- C2 ----------------------------------------------------------------------
TwoByTwoOneBomb == fieldSize = 2 /\ state # INITIATED /\ Cardinality(BombCells(gameField)) = 1

NonBombOpened ==
    \A p \in Positions : ~gameField[p].isBomb => gameField[p].state = OPENED

\* C2 as claimed: on a 2x2 grid with exactly 1 bomb, once the three non-bomb
\* cells have been opened by openCell (so the game is not lost), the game is WIN
\* and the bomb cell DEFUSED, whether the bomb cell was left untouched or marked.
C2_Original ==
    (TwoByTwoOneBomb /\ NonBombOpened /\ state # LOSS) =>
        /\ state = WIN
        /\ \A p \in BombCells(gameField) : gameField[p].state = DEFUSED

\* C2 as amended: on a 2x2 grid with exactly 1 bomb, the openCell that opens
\* the last of the three non-bomb cells leaves the game WIN and the bomb cell
\* DEFUSED when the bomb cell was marked beforehand; when the bomb cell was
\* left untouched the game stays RUNNING and the bomb cell stays INITIAL.
C2_WinNeedsTheMark ==
    (TwoByTwoOneBomb /\ Playable) =>
        \A p \in Positions :
            (/\ ~gameField[p].isBomb
             /\ Unresolved(gameField[p])
             /\ \A q \in Positions \ {p} :
                    ~gameField[q].isBomb => gameField[q].state = OPENED) =>
                LET after == openCell(This, p[1], p[2])
                IN  \A b \in BombCells(gameField) :
                        IF gameField[b].state = MARKED_AS_BOMB
                        THEN after.state = WIN /\ after.gameField[b].state = DEFUSED
                        ELSE after.state = RUNNING /\ after.gameField[b].state = INITIAL

\* The bomb of a 2x2 grid is marked, two of the other cells are opened and the
\* third can be: opening it wins.
C2_Witness ==
    /\ TwoByTwoOneBomb
    /\ state = RUNNING
    /\ commands < CommandLimit
    /\ \E p \in Positions :
          /\ gameField[p] = [isBomb |-> FALSE, state |-> INITIAL]
          /\ \A q \in Positions \ {p} :
                gameField[q].state = IF gameField[q].isBomb THEN MARKED_AS_BOMB ELSE OPENED
          /\ openCell(This, p[1], p[2]).state = WIN

\* ---- C3 ----------------------------------------------------------------------
\* The win condition, told of the grid the check looks at.
NothingLeftToDo(field) ==
    \A p \in DOMAIN field :
        /\ field[p].state # INITIAL
        /\ ~(field[p].state = MARKED_AS_BOMB /\ ~field[p].isBomb)

\* What C3 says of one command's outcome: the check that ran with the game
\* RUNNING ends the game with WIN exactly when nothing is left to do; then the
\* marked bombs are DEFUSED, each told to the client before the WIN is; else
\* the game stays RUNNING and the check changes no cell.
WinCheckDecides(after) ==
    (after.winCheck # << >> /\ after.winCheck[1].state = RUNNING) =>
        LET at == after.winCheck[1].gameField
            marked == {p \in DOMAIN at : at[p].isBomb /\ at[p].state = MARKED_AS_BOMB}
            last == Len(after.notifications)
        IN  /\ after.state = WIN <=> NothingLeftToDo(at)
            /\ after.state = WIN =>
                  /\ \A p \in DOMAIN at :
                        after.gameField[p].state =
                            IF p \in marked THEN DEFUSED ELSE at[p].state
                  /\ after.notifications[last] =
                        [hook |-> "onGameStateChanged", state |-> WIN]
                  /\ \A p \in marked : \E k \in 1..(last - 1) :
                        after.notifications[k] =
                            [hook |-> "onCellStateChanged", x |-> p[1], y |-> p[2],
                             data |-> [state |-> DEFUSED, numberBombs |-> null]]
            /\ after.state # WIN =>
                  after.state = RUNNING /\ after.gameField = at

\* C3: after every openCell, and after every toggleCellBombMark that changed a
\* cell, run with the game RUNNING, the win check is made and the game becomes
\* WIN if and only if at that moment no cell is INITIAL and no MARKED_AS_BOMB
\* cell lacks a bomb; on WIN every marked bomb is DEFUSED before the state is
\* set, otherwise the game stays RUNNING and no cell is changed by the check.
C3_WinCheck ==
    Playable =>
        \A p \in Positions :
            LET opened == openCell(This, p[1], p[2])
                toggled == toggleCellBombMark(This, p[1], p[2])
            IN  /\ opened.winCheck # << >>
                /\ WinCheckDecides(opened)
                /\ toggled.winCheck # << >> <=> Unresolved(gameField[p])
                /\ WinCheckDecides(toggled)

\* A running game in which one bomb is marked and the mark of another cell
\* wins: the check defuses both.
C3_Witness ==
    /\ state = RUNNING
    /\ commands < CommandLimit
    /\ \E p, q \in Positions :
          /\ p # q
          /\ gameField[q] = [isBomb |-> TRUE, state |-> MARKED_AS_BOMB]
          /\ gameField[p].state = INITIAL
          /\ toggleCellBombMark(This, p[1], p[2]).state = WIN

\* ---- C4 ----------------------------------------------------------------------
\* Every neighbour of p holds a bomb, and p has a neighbour.
SurroundedByBombs(p) ==
    /\ Neighbours(p) # {}
    /\ \A q \in Neighbours(p) : gameField[q].isBomb

AllBombsPlaced == PlacementDone /\ Cardinality(BombCells(gameField)) = bombNumber

\* C4: after a placement in which all bombNumber bombs were placed, no cell of
\* the grid, with or without a bomb, has an 8-neighbourhood made of bomb cells
\* only.
C4_NoCellSurrounded ==
    AllBombsPlaced => \A p \in Positions : ~SurroundedByBombs(p)

\* ---- C5 ----------------------------------------------------------------------
\* C5: after placement the number of bomb cells is bombNumber unless the
\* failed-attempt budget ran out; it never exceeds bombNumber, and it is below
\* bombNumber only if the budget reached zero.
C5_BombCount ==
    PlacementDone =>
        LET placed == Cardinality(BombCells(gameField))
        IN  /\ placed <= bombNumber
            /\ admissibleNumberFailedAttemptsToPutBomb # 0 => placed = bombNumber
            /\ placed < bombNumber => admissibleNumberFailedAttemptsToPutBomb = 0

\* A placement on a 3x3 grid has run out of its budget with fewer bombs than
\* asked for, but with some.
C5_Witness ==
    /\ PlacementDone
    /\ fieldSize = MaxFieldSize
    /\ admissibleNumberFailedAttemptsToPutBomb = 0
    /\ Cardinality(BombCells(gameField)) \in 1..(bombNumber - 1)

\* ---- C6 ----------------------------------------------------------------------
NoBombAround(p) == \A q \in Neighbours(p) : ~gameField[q].isBomb

\* The cells reached from those of region by steps between neighbours, each
\* step to a cell with no bomb around it.
RECURSIVE ZeroRegion(_)
ZeroRegion(region) ==
    LET more == {q \in Positions \ region :
                    NoBombAround(q) /\ \E p \in region : q \in Neighbours(p)}
    IN  IF more = {} THEN region ELSE ZeroRegion(region \cup more)

\* C6: opening an unresolved cell that holds no bomb and has no bomb around it
\* leaves OPENED exactly the cells opened before, the cells of its zero-count
\* region and the neighbours of that region, marked cells among them included.
C6_FloodFill ==
    Playable =>
        \A p \in Positions :
            (~gameField[p].isBomb /\ Unresolved(gameField[p]) /\ NoBombAround(p)) =>
                LET after == openCell(This, p[1], p[2])
                    region == ZeroRegion({p})
                    before == {q \in Positions : gameField[q].state = OPENED}
                IN  {q \in Positions : after.gameField[q].state = OPENED}
                        = before \cup region \cup UNION {Neighbours(q) : q \in region}

\* On a 3x3 grid a cell with no bomb around it can be opened while a cell
\* of the set it opens is marked and a cell without a bomb lies outside the
\* set.
C6_Witness ==
    /\ state = RUNNING
    /\ fieldSize = MaxFieldSize
    /\ commands < CommandLimit
    /\ \E p \in Positions :
          /\ ~gameField[p].isBomb /\ gameField[p].state = INITIAL /\ NoBombAround(p)
          /\ LET region == ZeroRegion({p})
                 opens == region \cup UNION {Neighbours(q) : q \in region}
             IN  /\ Cardinality(region) > 1
                 /\ \E q \in opens : gameField[q].state = MARKED_AS_BOMB
                 /\ \E q \in Positions \ opens : ~gameField[q].isBomb

\* ---- C7 ----------------------------------------------------------------------
\* The object as the next command finds it.
Returned(this) == [this EXCEPT !.notifications = << >>, !.winCheck = << >>]

CellNotification(p, cellState) ==
    [hook |-> "onCellStateChanged", x |-> p[1], y |-> p[2],
     data |-> [state |-> cellState, numberBombs |-> null]]

\* Two toggles of p mark it and take the mark back, with one notification each.
MarkedAndUnmarked(p, first, second) ==
    /\ first.gameField[p].state = MARKED_AS_BOMB
    /\ second.gameField[p].state = INITIAL
    /\ second.gameField = gameField
    /\ CellNotifications(first) = <<CellNotification(p, MARKED_AS_BOMB)>>
    /\ CellNotifications(second) = <<CellNotification(p, INITIAL)>>

\* C7 as claimed: in a READY or RUNNING game two toggleCellBombMark calls on
\* the same INITIAL cell leave the cell INITIAL and fire exactly two cell
\* notifications, MARKED_AS_BOMB then INITIAL, and none for another cell.
C7_Original ==
    Playable =>
        \A p \in Positions :
            gameField[p].state = INITIAL =>
                LET first == toggleCellBombMark(This, p[1], p[2])
                    second == toggleCellBombMark(Returned(first), p[1], p[2])
                IN  MarkedAndUnmarked(p, first, second)

\* C7 as amended: the same, unless the first toggle wins the game, which it
\* does exactly when the cell holds a bomb and nothing else is left to do; then
\* the cell is DEFUSED, the game WIN, and the second toggle changes nothing and
\* fires no notification.
C7_ToggleTwice ==
    Playable =>
        \A p \in Positions :
            gameField[p].state = INITIAL =>
                LET first == toggleCellBombMark(This, p[1], p[2])
                    second == toggleCellBombMark(Returned(first), p[1], p[2])
                    wins == /\ gameField[p].isBomb
                            /\ \A q \in Positions \ {p} :
                                  /\ gameField[q].state # INITIAL
                                  /\ gameField[q].state = MARKED_AS_BOMB => gameField[q].isBomb
                IN  /\ first.state = WIN <=> wins
                    /\ ~wins => MarkedAndUnmarked(p, first, second)
                    /\ wins =>
                          /\ first.gameField[p].state = DEFUSED
                          /\ first.notifications[1] = CellNotification(p, MARKED_AS_BOMB)
                          /\ second.state = WIN
                          /\ second.gameField = first.gameField
                          /\ second.notifications = << >>

\* In a running game the only cell left untouched holds a bomb and can be
\* toggled: the toggle wins.
C7_Witness ==
    /\ state = RUNNING
    /\ commands < CommandLimit
    /\ \E p \in Positions :
          /\ gameField[p] = [isBomb |-> TRUE, state |-> INITIAL]
          /\ \E q \in Positions : gameField[q].state = OPENED
          /\ toggleCellBombMark(This, p[1], p[2]).state = WIN

\* ---- C8 ----------------------------------------------------------------------
NothingHappens(after) ==
    /\ after.state = state
    /\ after.gameField = gameField
    /\ after.notifications = << >>

\* C8: openCell and toggleCellBombMark called while the game is INITIATED,
\* WIN or LOSS change no cell and no game state and fire no notification.
C8_NoGameNoCommand ==
    state \in {INITIATED, WIN, LOSS} =>
        \A p \in Positions :
            /\ NothingHappens(openCell(This, p[1], p[2]))
            /\ NothingHappens(toggleCellBombMark(This, p[1], p[2]))

\* A game is lost, its cells opened or detonated, and a command can still be
\* given.
C8_Witness ==
    /\ state = LOSS
    /\ commands < CommandLimit
    /\ \E p, q \in Positions :
          gameField[p].state = DETONATED /\ gameField[q].state = OPENED

\* ---- C9 ----------------------------------------------------------------------
\* The object as the constructor has it when it calls _setBombsOnGameField.
UnderConstruction ==
    [This EXCEPT !.state = INITIATED, !.gameField = [p \in {} |-> Cell]]

\* C9: restartGame in any state a command can find leaves every cell INITIAL,
\* fires exactly one cell notification, with state INITIAL, for each cell that
\* was not INITIAL and none for the others, sets the game READY, and places
\* the bombs as the constructor would, whatever the layout was before.
C9_Restart ==
    state # INITIATED =>
        LET restarted == restartGame(This)
        IN  /\ \A after \in restarted :
                  /\ after.state = READY
                  /\ \A p \in Positions :
                        /\ after.gameField[p].state = INITIAL
                        /\ SelectSeq(CellNotifications(after),
                                     LAMBDA n : <<n.x, n.y>> = p)
                              = IF gameField[p].state # INITIAL
                                THEN <<CellNotification(p, INITIAL)>>
                                ELSE << >>
            /\ {after.gameField : after \in restarted}
                  = {built.gameField : built \in _setBombsOnGameField(UnderConstruction)}

\* A running game with two bombs, an opened cell, a marked cell and an
\* untouched one, which restartGame then clears.
C9_Witness ==
    /\ state = RUNNING
    /\ Cardinality(BombCells(gameField)) = 2
    /\ \E p, q, r \in Positions :
          /\ gameField[p].state = OPENED
          /\ gameField[q].state = MARKED_AS_BOMB
          /\ gameField[r].state = INITIAL

\* ---- C10 ---------------------------------------------------------------------
\* Every game notification of a command tells a state other than the one
\* before it, and a command that leaves the state as it was fires none.
OnlyChangesToldOf(after) ==
    LET told == GameNotifications(after)
    IN  /\ \A k \in 1..Len(told) :
              told[k].state # (IF k = 1 THEN state ELSE told[k - 1].state)
        /\ after.state = state => told = << >>

\* C10: onGameStateChanged is fired once for each change of the game state to
\* a different value and never by a command after which the state equals the
\* state before it, restartGame in a READY game included.
C10_OnlyChangesNotified ==
    state # INITIATED =>
        /\ \A after \in restartGame(This) : OnlyChangesToldOf(after)
        /\ \A p \in Positions :
              /\ OnlyChangesToldOf(openCell(This, p[1], p[2]))
              /\ OnlyChangesToldOf(toggleCellBombMark(This, p[1], p[2]))

\* ---- C11 ---------------------------------------------------------------------
\* The cell states of field after the notifications told[k], told[k+1], ...
\* have each been taken as a change of the cell they name.
RECURSIVE Replayed(_, _, _)
Replayed(field, told, k) ==
    IF k > Len(told) THEN field
    ELSE Replayed([field EXCEPT ![<<told[k].x, told[k].y>>].state = told[k].data.state],
                  told, k + 1)

\* The cell notifications of a command that led from the grid before to the
\* object after: each tells a state the cell did not have until then, with the
\* number of bombs around the cell if the state is OPENED and null if not, and
\* together, in their order, they account for the state of every cell.
EveryChangeTold(before, after) ==
    LET told == CellNotifications(after)
    IN  /\ \A k \in 1..Len(told) :
              LET p == <<told[k].x, told[k].y>>
                  until == Replayed(before, SubSeq(told, 1, k - 1), 1)
              IN  /\ p \in Positions
                  /\ told[k].data.state # until[p].state
                  /\ told[k].data.numberBombs =
                        IF told[k].data.state = OPENED
                        THEN <<Cardinality({q \in Neighbours(p) : before[q].isBomb})>>
                        ELSE null
        /\ \A p \in Positions :
              Replayed(before, told, 1)[p].state = after.gameField[p].state

\* C11: the onCellStateChanged notifications of every command are the changes
\* of cell states in the order they happen, one for each change and none for a
\* cell left as it was; numberBombs is the number of bombs in the cell's
\* 8-neighbourhood when the new state is OPENED and null otherwise.
C11_CellNotificationsAreTheChanges ==
    state # INITIATED =>
        /\ \A after \in restartGame(This) : EveryChangeTold(gameField, after)
        /\ \A p \in Positions :
              /\ EveryChangeTold(gameField, openCell(This, p[1], p[2]))
              /\ EveryChangeTold(gameField, toggleCellBombMark(This, p[1], p[2]))

\* In a running game with a marked bomb a cell can be opened whose flood fill
\* opens other cells and wins, so that the marked bomb is told as DEFUSED.
C11_Witness ==
    /\ state = RUNNING
    /\ commands < CommandLimit
    /\ \E p, b \in Positions :
          /\ gameField[b] = [isBomb |-> TRUE, state |-> MARKED_AS_BOMB]
          /\ LET after == openCell(This, p[1], p[2])
             IN  /\ after.state = WIN
                 /\ Len(CellNotifications(after)) > 3
                 /\ after.notifications[Len(after.notifications) - 1]
                        = CellNotification(b, DEFUSED)

\* ---- C12 ---------------------------------------------------------------------
\* The passes the while loop can still make at most: the bombs still to place
\* and the failures still allowed.
PassesLeft == (bombNumber - numberSetBombs) + admissibleNumberFailedAttemptsToPutBomb

\* C12: for every size and bombNumber (bombNumber > size * size included) and
\* every cell the random selection may produce, a pass of the placement loop
\* either counts one more bomb or takes one from the failure budget, so the
\* loop ends after at most bombNumber + size * size passes, and when it has
\* ended the game is READY.
C12_PlacementTerminates ==
    /\ pc = "placing" =>
          /\ numberSetBombs < bombNumber
          /\ admissibleNumberFailedAttemptsToPutBomb > 0
          /\ PassesLeft <= bombNumber + fieldSize * fieldSize
          /\ \A x \in Coordinates, y \in Coordinates :
                LET pass == placementAttempt(fieldSize, Loop, x, y)
                IN  \/ /\ pass.numberSetBombs = numberSetBombs + 1
                       /\ pass.admissibleNumberFailedAttemptsToPutBomb =
                              admissibleNumberFailedAttemptsToPutBomb
                    \/ /\ pass.numberSetBombs = numberSetBombs
                       /\ pass.admissibleNumberFailedAttemptsToPutBomb =
                              admissibleNumberFailedAttemptsToPutBomb - 1
    /\ (pc = "idle" /\ state # INITIATED) =>
          /\ state = READY
          /\ PassesLeft >= 0
          /\ numberSetBombs = bombNumber \/ admissibleNumberFailedAttemptsToPutBomb = 0

\* A placement on the largest grid has ended after the longest loop it can
\* make with more than one bomb asked for: all failures spent and one bomb
\* short.
C12_Witness ==
    /\ PlacementDone
    /\ fieldSize = MaxFieldSize
    /\ bombNumber > 1
    /\ numberSetBombs = bombNumber - 1
    /\ PassesLeft = 1

\* ---- C13 ---------------------------------------------------------------------
\* The command that led to `after` left every resolved cell as it was.
ResolvedCellsKept(after) ==
    \A q \in Positions :
        Resolved(gameField[q]) => after.gameField[q] = gameField[q]

\* C13: a cell that is OPENED, DEFUSED or DETONATED keeps its state under every
\* openCell and toggleCellBombMark, whatever cell the command names; only
\* restartGame changes it; and openOrDetonate, openOrDefuse and toggleBombMark
\* called on a cell in such a state return false and change nothing.
C13_ResolvedIsFinal ==
    /\ \A cell \in [isBomb : BOOLEAN, state : {OPENED, DEFUSED, DETONATED}] :
          /\ openOrDetonate(cell) = [cell |-> cell, changed |-> FALSE]
          /\ openOrDefuse(cell) = [cell |-> cell, changed |-> FALSE]
          /\ toggleBombMark(cell) = [cell |-> cell, changed |-> FALSE]
    /\ state # INITIATED =>
          /\ \A p \in Positions :
                /\ ResolvedCellsKept(openCell(This, p[1], p[2]))
                /\ ResolvedCellsKept(toggleCellBombMark(This, p[1], p[2]))
          /\ \A after \in restartGame(This) :
                \A q \in Positions : after.gameField[q].state = INITIAL

\* In a running game with an opened cell a bomb can be opened: the loss
\* resolution then passes over the opened cell.
C13_Witness ==
    /\ state = RUNNING
    /\ commands < CommandLimit
    /\ \E p, q \in Positions :
          /\ gameField[q].state = OPENED
          /\ gameField[p].isBomb /\ Unresolved(gameField[p])
          /\ openCell(This, p[1], p[2]).state = LOSS

\* ---- C14 ---------------------------------------------------------------------
\* C14: openCell and toggleCellBombMark change no cell's isBomb; a placement
\* first clears every cell (no bomb, state INITIAL), so that it puts its bombs
\* into INITIAL cells only, and leaves every cell INITIAL; the layout is then
\* fixed until the next restartGame.
C14_LayoutFixedInGame ==
    state # INITIATED =>
        /\ \A p \in Positions :
              /\ BombCells(openCell(This, p[1], p[2]).gameField) = BombCells(gameField)
              /\ BombCells(toggleCellBombMark(This, p[1], p[2]).gameField)
                    = BombCells(gameField)
        /\ LET cleared == _clearEach(This, _forEachCell(fieldSize), 1).gameField
           IN  /\ \A p \in Positions : cleared[p] = [isBomb |-> FALSE, state |-> INITIAL]
               /\ \A x \in Coordinates, y \in Coordinates :
                     LET pass == placementAttempt(fieldSize,
                                     [gameField |-> cleared, numberSetBombs |-> 0,
                                      admissibleNumberFailedAttemptsToPutBomb |->
                                          fieldSize * fieldSize], x, y)
                     IN  \A p \in Positions : pass.gameField[p].state = INITIAL
        /\ \A after \in restartGame(This) :
              \A p \in Positions : after.gameField[p].state = INITIAL

\* A lost game with two bombs, whose cells restartGame clears before it
\* places bombs again.
C14_Witness ==
    /\ state = LOSS
    /\ Cardinality(BombCells(gameField)) = 2
    /\ \A p \in Positions : Resolved(gameField[p])

\* ---- C15 ---------------------------------------------------------------------
NewlyDetonated(after) ==
    {q \in Positions : after.gameField[q].state = DETONATED
                       /\ gameField[q].state # DETONATED}

\* C15: the game becomes LOSS only by an openCell whose own target holds a
\* bomb and is INITIAL or MARKED_AS_BOMB; the flood fill detonates nothing,
\* toggleCellBombMark and restartGame never cause LOSS, and a cell becomes
\* DETONATED only as the target of such an openCell or in the loss resolution
\* that follows it, the target being the first cell told as changed.
C15_LossOnlyByOpeningABomb ==
    (state # INITIATED /\ state # LOSS) =>
        /\ \A p \in Positions :
              LET opened == openCell(This, p[1], p[2])
                  toggled == toggleCellBombMark(This, p[1], p[2])
                  detonates == Playable /\ gameField[p].isBomb /\ Unresolved(gameField[p])
              IN  /\ toggled.state # LOSS
                  /\ NewlyDetonated(toggled) = {}
                  /\ opened.state = LOSS => detonates
                  /\ NewlyDetonated(opened) # {} =>
                        /\ detonates
                        /\ opened.state = LOSS
                        /\ p \in NewlyDetonated(opened)
                        /\ CellNotifications(opened)[1] = CellNotification(p, DETONATED)
        /\ \A after \in restartGame(This) :
              after.state # LOSS /\ NewlyDetonated(after) = {}

\* In a running game with a bomb left, a cell with no bomb around it can be
\* opened and its flood fill opens other cells: none of them detonates.
C15_Witness ==
    /\ state = RUNNING
    /\ commands < CommandLimit
    /\ \E p, b \in Positions :
          /\ gameField[b].isBomb /\ Unresolved(gameField[b])
          /\ ~gameField[p].isBomb /\ gameField[p].state = INITIAL /\ NoBombAround(p)
          /\ Len(CellNotifications(openCell(This, p[1], p[2]))) > 3
          /\ openCell(This, p[1], p[2]).state = RUNNING

\* ---- C16 ---------------------------------------------------------------------
GameNotification(gameState) == [hook |-> "onGameStateChanged", state |-> gameState]

\* The notification that the game is over comes last.
EndToldLast(after) ==
    LET told == after.notifications
    IN  \A k \in 1..Len(told) :
            told[k] \in {GameNotification(WIN), GameNotification(LOSS)} => k = Len(told)

\* C16: an openCell that detonates its target tells, in this order, RUNNING if
\* the game was READY, the target as DETONATED, the other cells the loss
\* resolution changes, and LOSS; a command that wins tells every DEFUSED cell
\* before WIN; nothing is told after WIN or LOSS within the command.
C16_NotificationOrder ==
    Playable =>
        \A p \in Positions :
            LET opened == openCell(This, p[1], p[2])
                toggled == toggleCellBombMark(This, p[1], p[2])
                told == opened.notifications
                first == IF state = READY THEN 2 ELSE 1
            IN  /\ EndToldLast(opened)
                /\ EndToldLast(toggled)
                /\ opened.state = LOSS =>
                      /\ Len(told) > first
                      /\ state = READY => told[1] = GameNotification(RUNNING)
                      /\ told[first] = CellNotification(p, DETONATED)
                      /\ \A k \in (first + 1)..(Len(told) - 1) :
                            /\ told[k].hook = "onCellStateChanged"
                            /\ <<told[k].x, told[k].y>> # p
                      /\ told[Len(told)] = GameNotification(LOSS)
                /\ \A after \in {opened, toggled} :
                      after.state = WIN =>
                          /\ after.notifications[Len(after.notifications)]
                                = GameNotification(WIN)
                          /\ \A b \in Positions :
                                after.gameField[b].state = DEFUSED =>
                                    \E k \in 1..(Len(after.notifications) - 1) :
                                        after.notifications[k] = CellNotification(b, DEFUSED)

\* In a READY game on the largest grid, with two bombs, a bomb can be opened:
\* RUNNING, the detonation, the other cells and LOSS are told.
C16_Witness ==
    /\ state = READY
    /\ fieldSize = MaxFieldSize
    /\ Cardinality(BombCells(gameField)) = 2
    /\ commands < CommandLimit
    /\ \E p \in Positions : openCell(This, p[1], p[2]).state = LOSS

\* ---- C17 ---------------------------------------------------------------------
\* A bomb at p would leave p, or a bomb next to p, with bombs all around.
WouldSurroundABomb(p) ==
    \/ \A q \in Neighbours(p) : gameField[q].isBomb
    \/ \E a \in Neighbours(p) :
          /\ gameField[a].isBomb
          /\ \A q \in Neighbours(a) \ {p} : gameField[q].isBomb

\* What a pass of the loop does to the failure budget and to the layout.
TakesFromBudget(pass) ==
    pass.admissibleNumberFailedAttemptsToPutBomb =
        admissibleNumberFailedAttemptsToPutBomb - 1

\* C17 as claimed: every placement attempt selects a cell that holds no bomb,
\* so the budget is taken from only by attempts the check of the surroundings
\* rejects, and a rejected attempt leaves the layout as it was.
C17_Original ==
    pc = "placing" =>
        \A p \in Positions :
            LET pass == placementAttempt(fieldSize, Loop, p[1], p[2])
            IN  /\ ~gameField[p].isBomb
                /\ TakesFromBudget(pass) => WouldSurroundABomb(p)
                /\ TakesFromBudget(pass) => pass.gameField = gameField

\* C17 as amended: a placement attempt selects any cell of the grid, one that
\* holds a bomb included; it places a bomb, at no cost, when the cell holds none
\* and the bomb would leave neither this cell nor a bomb next to it with bombs
\* all around; every other attempt, the selection of a cell that holds a bomb
\* included, takes one from the budget and leaves the layout as it was.
C17_AttemptPlacesOrPays ==
    pc = "placing" =>
        \A p \in Positions :
            LET pass == placementAttempt(fieldSize, Loop, p[1], p[2])
            IN  IF ~gameField[p].isBomb /\ ~WouldSurroundABomb(p)
                THEN /\ pass.gameField = [gameField EXCEPT ![p].isBomb = TRUE]
                     /\ pass.numberSetBombs = numberSetBombs + 1
                     /\ ~TakesFromBudget(pass)
                     /\ pass.admissibleNumberFailedAttemptsToPutBomb =
                            admissibleNumberFailedAttemptsToPutBomb
                ELSE /\ pass.gameField = gameField
                     /\ pass.numberSetBombs = numberSetBombs
                     /\ TakesFromBudget(pass)

\* In the loop on the largest grid there is a cell that holds a bomb, selecting
\* which takes from the budget, and a cell without a bomb that the look at the
\* adjacent bombs rejects.
C17_Witness ==
    /\ pc = "placing"
    /\ fieldSize = MaxFieldSize
    /\ \E p, q \in Positions :
          /\ gameField[p].isBomb
          /\ TakesFromBudget(placementAttempt(fieldSize, Loop, p[1], p[2]))
          /\ ~gameField[q].isBomb
          /\ \E r \in Neighbours(q) : ~gameField[r].isBomb
          /\ TakesFromBudget(placementAttempt(fieldSize, Loop, q[1], q[2]))

\* ---- C18 ---------------------------------------------------------------------
\* C18: after every placement, complete or stopped by the budget, every cell
\* that holds a bomb has a neighbour that holds none; so on a 1x1 grid no
\* bomb is ever placed.
C18_EveryBombHasAFreeNeighbour ==
    PlacementDone =>
        /\ \A p \in Positions :
              gameField[p].isBomb => \E q \in Neighbours(p) : ~gameField[q].isBomb
        /\ fieldSize = 1 => BombCells(gameField) = {}

\* A placement of four bombs on a 2x2 grid has stopped on the budget with
\* three bombs, all next to the one cell without.
C18_Witness ==
    /\ PlacementDone
    /\ fieldSize = 2
    /\ bombNumber = 4
    /\ admissibleNumberFailedAttemptsToPutBomb = 0
    /\ Cardinality(BombCells(gameField)) = 3

\* ---- C19 ---------------------------------------------------------------------
\* C19: between commands an OPENED cell holds no bomb and a DEFUSED or
\* DETONATED cell holds one; in READY every cell is INITIAL; in RUNNING every
\* cell is INITIAL, MARKED_AS_BOMB or OPENED; in WIN every cell without a bomb
\* is OPENED and every bomb DEFUSED; in LOSS every cell without a bomb is
\* OPENED and every bomb DETONATED.
C19_CellsAgreeWithGame ==
    state # INITIATED =>
        \A p \in Positions :
            LET cell == gameField[p]
            IN  /\ cell.state = OPENED => ~cell.isBomb
                /\ cell.state \in {DEFUSED, DETONATED} => cell.isBomb
                /\ state = READY => cell.state = INITIAL
                /\ state = RUNNING => cell.state \in {INITIAL, MARKED_AS_BOMB, OPENED}
                /\ state = WIN =>
                      cell.state = IF cell.isBomb THEN DEFUSED ELSE OPENED
                /\ state = LOSS =>
                      cell.state = IF cell.isBomb THEN DETONATED ELSE OPENED

\* A game on the largest grid is won, a bomb defused.
C19_Witness ==
    /\ state = WIN
    /\ fieldSize = MaxFieldSize
    /\ \E p \in Positions : gameField[p].state = DEFUSED

\* ---- C20 ---------------------------------------------------------------------
\* The game states a command went through: the state it found and the states
\* it set, in order.
StatesPassed(after) ==
    <<state>> \o [k \in 1..Len(GameNotifications(after)) |->
                     GameNotifications(after)[k].state]

\* The command went from state to state by the steps allowed and ended in the
\* last state it set.
StepsAmong(after, allowed) ==
    LET passed == StatesPassed(after)
    IN  /\ \A k \in 1..(Len(passed) - 1) : <<passed[k], passed[k + 1]>> \in allowed
        /\ after.state = passed[Len(passed)]
        /\ after.state # INITIATED

\* C20: the game state changes only from INITIATED to READY in the
\* constructor, from READY to RUNNING by the first openCell or
\* toggleCellBombMark, from RUNNING to WIN or to LOSS, and from any state to
\* READY by restartGame; WIN and LOSS are left by restartGame only, the win
\* check after a detonating openCell does nothing, and no command returns with
\* the state INITIATED.
C20_GameStateChanges ==
    /\ state = INITIATED =>
          \A built \in _setBombsOnGameField(This) :
              StatesPassed(built) = <<INITIATED, READY>> /\ built.state = READY
    /\ state # INITIATED =>
          /\ \A after \in restartGame(This) :
                StatesPassed(after) = <<state, READY>> /\ after.state = READY
          /\ \A p \in Positions :
                LET opened == openCell(This, p[1], p[2])
                    toggled == toggleCellBombMark(This, p[1], p[2])
                    allowed == {<<READY, RUNNING>>, <<RUNNING, WIN>>, <<RUNNING, LOSS>>}
                IN  /\ StepsAmong(opened, allowed)
                    /\ StepsAmong(toggled, allowed)
                    /\ toggled.state # LOSS \/ state = LOSS
                    /\ (opened.state = LOSS /\ state # LOSS) =>
                          /\ opened.winCheck # << >>
                          /\ opened.winCheck[1].state = LOSS
                          /\ opened.gameField = opened.winCheck[1].gameField

\* In a READY game on the largest grid one openCell opens every cell the
\* win needs: the game goes to RUNNING and to WIN in one command.
C20_Witness ==
    /\ state = READY
    /\ fieldSize = MaxFieldSize
    /\ commands < CommandLimit
    /\ \E p \in Positions :
          StatesPassed(openCell(This, p[1], p[2])) = <<READY, RUNNING, WIN>>

=============================================================================
